---------------------------- MODULE Spec2Model ----------------------------
(***************************************************************************)
(* Model of the VEGAS adaptive Monte-Carlo integrator (class Vegas of      *)
(* Vegas.ipynb): the index enumerator get_next_index, the region mapper    *)
(* _get_selected_region, resize_grid, prepare_grid (training) and          *)
(* integrate.                                                              *)
(*                                                                         *)
(* Floating point numbers are modelled as exact rationals <<n, d>> in      *)
(* lowest terms with d > 0, so every statement checked here is a statement *)
(* about the algorithm in exact arithmetic; rounding is not modelled.      *)
(***************************************************************************)
EXTENDS Integers, Sequences, FiniteSets, TLC

(***************************************************************************)
(* Bounds of the model.                                                    *)
(***************************************************************************)
MaxLimit == 4

MaxDims == 3

(***************************************************************************)
(* Exact rational arithmetic.                                              *)
(***************************************************************************)
Abs(n) == IF n < 0 THEN -n ELSE n

RECURSIVE GCD(_, _)
GCD(a, b) == IF b = 0 THEN a ELSE GCD(b, a % b)

Rat(n, d) ==
    LET g == GCD(Abs(n), Abs(d))
        s == IF d < 0 THEN -1 ELSE 1
    IN  <<(s * n) \div g, (s * d) \div g>>

Zero == <<0, 1>>

One == <<1, 1>>

RAdd(p, q) ==
    LET g == GCD(p[2], q[2])
    IN  Rat(p[1] * (q[2] \div g) + q[1] * (p[2] \div g), (p[2] \div g) * q[2])

RNeg(p) == <<-p[1], p[2]>>

RSub(p, q) == RAdd(p, RNeg(q))

RMul(p, q) ==
    LET g1 == GCD(Abs(p[1]), q[2])
        g2 == GCD(Abs(q[1]), p[2])
    IN  Rat((p[1] \div g1) * (q[1] \div g2), (p[2] \div g2) * (q[2] \div g1))

RDiv(p, q) == RMul(p, Rat(q[2], q[1]))

RLt(p, q) ==
    LET g == GCD(p[2], q[2])
    IN  p[1] * (q[2] \div g) < q[1] * (p[2] \div g)

RLeq(p, q) == ~RLt(q, p)

RAbs(p) == <<Abs(p[1]), p[2]>>

RECURSIVE RSum(_)
RSum(s) == IF s = <<>> THEN Zero ELSE RAdd(s[1], RSum(Tail(s)))

RECURSIVE RProd(_)
RProd(s) == IF s = <<>> THEN One ELSE RMul(s[1], RProd(Tail(s)))

RECURSIVE Pow(_, _)
Pow(b, e) == IF e = 0 THEN 1 ELSE b * Pow(b, e - 1)

\* The sequence f with its elements computed once: an array, as opposed to
\* an expression that is evaluated again at every use.
Array(f) == f \o <<>>

(***************************************************************************)
(* Vegas.get_next_index(indices, limit).  Python positions 0..len-1 are    *)
(* the sequence positions 1..Len here; the loop runs from position `i`.    *)
(***************************************************************************)
RECURSIVE next_index_from(_, _, _)
next_index_from(indices, limit, i) ==
    IF i > Len(indices) THEN indices
    ELSE LET v == (indices[i] + 1) % limit
             stepped == [indices EXCEPT ![i] = v]
         IN  IF v # 0 THEN stepped
             ELSE next_index_from(stepped, limit, i + 1)

\* The loop without the early return: every component is incremented.
get_next_index_all(indices, limit) ==
    Array([i \in 1..Len(indices) |-> (indices[i] + 1) % limit])

\* The loop stopped after its first turn: nothing is carried into the
\* next component.
get_next_index_nocarry(indices, limit) ==
    [indices EXCEPT ![1] = (indices[1] + 1) % limit]

\* The loop run from the last position down: the last component is the
\* least significant.
RECURSIVE next_index_down_from(_, _, _)
next_index_down_from(indices, limit, i) ==
    IF i < 1 THEN indices
    ELSE LET v == (indices[i] + 1) % limit
             stepped == [indices EXCEPT ![i] = v]
         IN  IF v # 0 THEN stepped
             ELSE next_index_down_from(stepped, limit, i - 1)

get_next_index_big_endian(indices, limit) ==
    next_index_down_from(indices, limit, Len(indices))

get_next_index(indices, limit) == next_index_from(indices, limit, 1)

ZeroIndex(dims) == Array([d \in 1..dims |-> 0])

AllIndices(limit, dims) == [1..dims -> 0..(limit - 1)]

(***************************************************************************)
(* Arrays.  A numpy matrix m[i, d] is a sequence of rows; Python row i is  *)
(* row i + 1 here and Python row -1 is the last row.                       *)
(***************************************************************************)
PyRow(m, i) == IF i < 0 THEN Len(m) + 1 + i ELSE i + 1

Col(m, d) == Array([i \in 1..Len(m) |-> m[i][d]])

(***************************************************************************)
(* _get_selected_region(total_region, bins, indices): result[0,:] is the   *)
(* lower and result[1,:] the upper bound of the selected box.  region[1]   *)
(* is the row region[0,:] of the source, region[2] the row region[1,:].    *)
(***************************************************************************)
\* The lower edge of bin 0 read from row index - 1 = -1 of a table that has
\* no row of its own for it: the last bin's edge.
get_selected_region_nosentinel(total_region, bins, indices) ==
    LET max_index == Len(bins) - 2
        one_dim(dim, row) ==
            LET tot_range == RSub(total_region[2][dim], total_region[1][dim])
                index == indices[dim]
                lower_index == IF index = 0 THEN max_index ELSE index - 1
            IN  RAdd(total_region[1][dim],
                     RMul(bins[PyRow(bins, IF row = 1 THEN lower_index ELSE index)][dim],
                          tot_range))
    IN  <<Array([dim \in 1..Len(indices) |-> one_dim(dim, 1)]),
          Array([dim \in 1..Len(indices) |-> one_dim(dim, 2)])>>

get_selected_region(total_region, bins, indices) ==
    LET max_index == Len(bins) - 1
        one_dim(dim, row) ==
            LET tot_range == RSub(total_region[2][dim], total_region[1][dim])
                index == indices[dim]
                lower_index == IF index = 0 THEN max_index ELSE index - 1
            IN  RAdd(total_region[1][dim],
                     RMul(bins[PyRow(bins, IF row = 1 THEN lower_index ELSE index)][dim],
                          tot_range))
    IN  <<Array([dim \in 1..Len(indices) |-> one_dim(dim, 1)]),
          Array([dim \in 1..Len(indices) |-> one_dim(dim, 2)])>>

(***************************************************************************)
(* Vegas.resize_grid(grid, old_weights, subintegrals, alpha): returns      *)
(* <<grid, combined_weights>>.  The grid is rewritten in place, row by     *)
(* row, each edge from the row before it (row -1 for row 0).               *)
(***************************************************************************)
\* m / np.sum(m, axis=0): every column divided by its sum
normalized(m) ==
    LET total == Array([d \in 1..Len(m[1]) |-> RSum(Col(m, d))])
        quotient(i, d) == RDiv(m[i][d], total[d])
    IN  Array([row \in 1..Len(m) |->
            Array([col \in 1..Len(m[1]) |-> quotient(row, col)])])

\* np.mean(subintegrals) with no axis: the mean of the whole table taken
\* for every column.
column_mean_global(subintegrals) ==
    LET total == RSum(Array([d \in 1..Len(subintegrals[1]) |->
                                RSum(Col(subintegrals, d))]))
        mean == RDiv(total, Rat(Len(subintegrals) * Len(subintegrals[1]), 1))
    IN  Array([d \in 1..Len(subintegrals[1]) |->
                  IF mean = Zero THEN One ELSE mean])

\* The guard applied to the whole vector: every mean is replaced by 1 when
\* one of them is 0.
column_mean_guard_all(subintegrals) ==
    LET mean(d) == RDiv(RSum(Col(subintegrals, d)), Rat(Len(subintegrals), 1))
        degenerate == \E d \in 1..Len(subintegrals[1]) : mean(d) = Zero
    IN  Array([d \in 1..Len(subintegrals[1]) |->
                  IF degenerate THEN One ELSE mean(d)])

\* mean = np.mean(subintegrals, axis=0); mean[mean==0] = 1
column_mean(subintegrals) ==
    LET mean(d) == RDiv(RSum(Col(subintegrals, d)), Rat(Len(subintegrals), 1))
    IN  Array([d \in 1..Len(subintegrals[1]) |->
                  IF mean(d) = Zero THEN One ELSE mean(d)])

\* rel_weights = alpha*mean+subintegrals, not inverted, then divided by its
\* column sums
relative_weights_direct(subintegrals, alpha) ==
    LET mean == column_mean(subintegrals)
        direct(i, d) == RAdd(RMul(alpha, mean[d]), subintegrals[i][d])
    IN  normalized(Array([row \in 1..Len(subintegrals) |->
            Array([col \in 1..Len(subintegrals[1]) |-> direct(row, col)])]))

\* rel_weights = 1/(alpha*mean+subintegrals), then divided by its column sums
relative_weights(subintegrals, alpha) ==
    LET mean == column_mean(subintegrals)
        inverse(i, d) == RDiv(One, RAdd(RMul(alpha, mean[d]), subintegrals[i][d]))
    IN  normalized(Array([row \in 1..Len(subintegrals) |->
            Array([col \in 1..Len(subintegrals[1]) |-> inverse(row, col)])]))

\* The product of the old and the relative weights returned as it is.
combine_weights_unnormalized(old_weights, rel_weights) ==
    LET product(i, d) == RMul(old_weights[i][d], rel_weights[i][d])
    IN  Array([row \in 1..Len(old_weights) |->
            Array([col \in 1..Len(old_weights[1]) |-> product(row, col)])])

\* combined_weights = old_weights * rel_weights, then divided by its column sums
combine_weights(old_weights, rel_weights) ==
    LET product(i, d) == RMul(old_weights[i][d], rel_weights[i][d])
    IN  normalized(Array([row \in 1..Len(old_weights) |->
            Array([col \in 1..Len(old_weights[1]) |-> product(row, col)])]))

RECURSIVE cumulative_edges(_, _)
cumulative_edges(previous, ws) ==
    IF ws = <<>> THEN <<>>
    ELSE LET edge == RAdd(previous, ws[1])
         IN  <<edge>> \o cumulative_edges(edge, Tail(ws))

\* Row 0 takes the old edge of the last bin for the edge before it: the
\* table is read as if it had no row after the last bin.
resized_grid_from_last(grid, combined_weights) ==
    LET n == Len(combined_weights)
        edges == Array([d \in 1..Len(grid[1]) |->
            cumulative_edges(grid[PyRow(grid, -2)][d], Col(combined_weights, d))])
    IN  Array([r \in 1..Len(grid) |->
            IF r <= n THEN Array([d \in 1..Len(grid[1]) |-> edges[d][r]])
                      ELSE grid[r]])

\* The loop run over one row more: the last row takes the edge of the last
\* bin.
resized_grid_all_rows(grid, combined_weights) ==
    LET n == Len(combined_weights)
        edges == Array([d \in 1..Len(grid[1]) |->
            cumulative_edges(grid[PyRow(grid, -1)][d], Col(combined_weights, d))])
    IN  Array([r \in 1..Len(grid) |->
            Array([d \in 1..Len(grid[1]) |-> edges[d][IF r <= n THEN r ELSE n]])])

\* for dim ...: for i, w in enumerate(combined_weights[:,dim]):
\*     grid[i,dim] = grid[i-1,dim] + w
resized_grid(grid, combined_weights) ==
    LET n == Len(combined_weights)
        edges == Array([d \in 1..Len(grid[1]) |->
            cumulative_edges(grid[PyRow(grid, -1)][d], Col(combined_weights, d))])
    IN  Array([r \in 1..Len(grid) |->
            IF r <= n THEN Array([d \in 1..Len(grid[1]) |-> edges[d][r]])
                      ELSE grid[r]])

resize_grid(grid, old_weights, subintegrals, alpha) ==
    LET combined_weights ==
            combine_weights(old_weights, relative_weights(subintegrals, alpha))
    IN  <<resized_grid(grid, combined_weights), combined_weights>>

(***************************************************************************)
(* The uniform tables prepare_grid starts from: edges (i + 1) / bin_num    *)
(* followed by the row of zeros, and weights 1 / bin_num.                  *)
(***************************************************************************)
\* The edges started at 0: np.arange(0, 1, 1/bin_num).
uniform_bins_from_zero(bin_num, dimensions) ==
    LET edge(r, d) == IF r <= bin_num THEN Rat(r - 1, bin_num) ELSE Zero
    IN  Array([row \in 1..(bin_num + 1) |->
            Array([col \in 1..dimensions |-> edge(row, col)])])

uniform_bins(bin_num, dimensions) ==
    LET edge(r, d) == IF r <= bin_num THEN Rat(r, bin_num) ELSE Zero
    IN  Array([row \in 1..(bin_num + 1) |->
            Array([col \in 1..dimensions |-> edge(row, col)])])

uniform_weights(bin_num, dimensions) ==
    LET weight(r, d) == Rat(1, bin_num)
    IN  Array([row \in 1..bin_num |->
            Array([col \in 1..dimensions |-> weight(row, col)])])

(***************************************************************************)
(* The random source.  numpy's RandomState is a deterministic generator    *)
(* whose state advances with every number drawn; it is modelled by a small *)
(* linear congruential generator whose numbers are quarters in [0, 1).     *)
(* rand(dimensions) returns a dimensions-long vector and the stream after  *)
(* the draw.                                                               *)
(***************************************************************************)
DefaultSeed == 164

RandomState(seed) == [state |-> seed % 16, drawn |-> 0]

RECURSIVE rand_state(_, _)
rand_state(x, k) == IF k = 0 THEN x ELSE rand_state((5 * x + 3) % 16, k - 1)

\* The numbers read without advancing the generator.
rand_peek(stream, dimensions) ==
    [point |-> Array([d \in 1..dimensions |->
                    Rat(rand_state(stream.state, d - 1) \div 4, 4)]),
     stream |-> stream]

\* Numbers drawn from (0, 1] instead of [0, 1).
rand_closed(stream, dimensions) ==
    [point |-> Array([d \in 1..dimensions |->
                    Rat(rand_state(stream.state, d - 1) \div 4 + 1, 4)]),
     stream |-> [state |-> rand_state(stream.state, dimensions),
                 drawn |-> stream.drawn + 1]]

rand(stream, dimensions) ==
    [point |-> Array([d \in 1..dimensions |->
                    Rat(rand_state(stream.state, d - 1) \div 4, 4)]),
     stream |-> [state |-> rand_state(stream.state, dimensions),
                 drawn |-> stream.drawn + 1]]

(***************************************************************************)
(* The integrand is an opaque callable; these stand for it.  "step" is a   *)
(* signed step function, "boom" is 1 but raises for points whose first     *)
(* coordinate is at least 3/4, "const" is the constant ConstValue.         *)
(***************************************************************************)
Funcs == {"step", "boom", "const"}

ConstValue == Rat(-3, 1)

func_call(func, point) ==
    CASE func = "step" ->
            [raised |-> FALSE,
             value |-> IF RLt(point[1], Rat(1, 2)) THEN Rat(-1, 1) ELSE Rat(2, 1)]
      [] func = "boom" ->
            [raised |-> RLeq(Rat(3, 4), point[1]), value |-> One]
      [] func = "const" ->
            [raised |-> FALSE, value |-> ConstValue]

(***************************************************************************)
(* The sampling loop of one bin combination, `for step in                  *)
(* range(calls_per_bin)`: draw, call the integrand, accumulate.            *)
(* `importance` is TRUE in prepare_grid (absolute value) and FALSE in      *)
(* integrate.  The result tells whether the integrand raised, the          *)
(* accumulated value, the stream after the draws made and the points the   *)
(* integrand was called at.                                                *)
(***************************************************************************)
RECURSIVE sample_steps(_, _, _, _, _, _, _, _)
sample_steps(func, zone, volume, calls_per_bin, importance, stream, acc, points) ==
    IF Len(points) = calls_per_bin
    THEN [raised |-> FALSE, value |-> acc, stream |-> stream, points |-> points]
    ELSE LET draw == rand(stream, Len(zone[1]))
             point == Array([d \in 1..Len(zone[1]) |->
                          RAdd(zone[1][d],
                               RMul(draw.point[d], RSub(zone[2][d], zone[1][d])))])
             call_res == func_call(func, point)
             term == RDiv(RMul(volume,
                               IF importance THEN RAbs(call_res.value)
                                             ELSE call_res.value),
                          Rat(calls_per_bin, 1))
         IN  IF call_res.raised
             THEN [raised |-> TRUE, value |-> acc, stream |-> draw.stream,
                   points |-> Append(points, point)]
             ELSE sample_steps(func, zone, volume, calls_per_bin, importance,
                               draw.stream, RAdd(acc, term), Append(points, point))

\* The width along the first dimension taken for the volume.
zone_volume_first(zone) == RSub(zone[2][1], zone[1][1])

\* np.prod(selected_zone[1,:] - selected_zone[0,:])
zone_volume(zone) ==
    RProd(Array([d \in 1..Len(zone[1]) |-> RSub(zone[2][d], zone[1][d])]))

\* The larger of the two where min was meant, the smaller where max was.
Larger(a, b) == IF a >= b THEN a ELSE b

Smaller(a, b) == IF a <= b THEN a ELSE b

Min(a, b) == IF a <= b THEN a ELSE b

Max(a, b) == IF a >= b THEN a ELSE b

\* A float argument: mant * eps^eps_exp, with eps = np.finfo(float).eps =
\* 2^-52.  The rationals of this module have denominators below 2^31, so a
\* mantissa on its own (eps_exp = 0) is above eps exactly when it is
\* positive; the values next to eps are mantissas of eps (eps_exp = 1).
Float(mant, eps_exp) == [mant |-> mant, eps_exp |-> eps_exp]

float_value(x) == x.mant

\* alpha < eps: the comparison made strict.
LtEps(alpha) ==
    IF alpha.eps_exp = 1 THEN RLt(alpha.mant, One) ELSE RLeq(alpha.mant, Zero)

\* alpha <= np.finfo(float).eps
LeqEps(alpha) ==
    IF alpha.eps_exp = 1 THEN RLeq(alpha.mant, One) ELSE RLeq(alpha.mant, Zero)

(***************************************************************************)
(* State.                                                                  *)
(***************************************************************************)
VARIABLES
    model,    \* the Vegas objects: model[i] is the object's attributes
    streams,  \* the RandomState objects; stream 0 is the default argument
    pc,       \* position of the running call, "idle" between calls
    frame,    \* locals of the running call
    log,      \* the finished calls, oldest first
    caller,   \* the arguments the caller uses and the calls it has left
    enum      \* enumerator harness: limit, indices, calls made, vectors seen

vegasVars == <<model, streams, pc, frame, log, caller>>

vars == <<model, streams, pc, frame, log, caller, enum>>

(***************************************************************************)
(* The enumerator on its own: every limit and dims within the bounds,      *)
(* started from the zero vector and advanced once around the cycle.        *)
(***************************************************************************)
EnumIdle == [limit |-> 1, indices |-> <<0>>, calls |-> 0, seen |-> <<>>]

NoFrame == [op |-> "none"]

VegasIdle ==
    /\ model = <<>>
    /\ streams = <<>>
    /\ pc = "off"
    /\ log = <<>>
    /\ caller = [calls |-> 0, turn |-> 0]

InitEnum ==
    /\ VegasIdle
    /\ frame = NoFrame
    /\ \E limit \in 1..MaxLimit, dims \in 1..MaxDims :
          enum = [limit |-> limit, indices |-> ZeroIndex(dims),
                  calls |-> 0, seen |-> <<>>]

Advance ==
    /\ enum.calls < Pow(enum.limit, Len(enum.indices))
    /\ LET nxt == get_next_index(enum.indices, enum.limit)
       IN  enum' = [enum EXCEPT !.indices = nxt,
                                !.calls = @ + 1,
                                !.seen = Append(@, nxt)]
    /\ UNCHANGED vegasVars

NextEnum == Advance

SpecEnum == InitEnum /\ [][NextEnum]_vars

(***************************************************************************)
(* Vegas(region, func, rand): the attributes __init__ sets.  bin_num and   *)
(* bins are not attributes of the object until prepare_grid commits them;  *)
(* `attrs` is the set of attributes the object has.                        *)
(***************************************************************************)
\* The constructor made to leave a one-bin grid in the object.
Vegas_with_grid(region, func, rand_id) ==
    [attrs |-> {"region", "func", "dimensions", "rand", "bin_num", "bins"},
     region |-> region,
     func |-> func,
     dimensions |-> Len(region[1]),
     rand |-> rand_id,
     bin_num |-> 1,
     bins |-> uniform_bins(1, Len(region[1]))]

\* The constructor made to ignore the rand it is given: every object draws
\* from the default RandomState.
Vegas_default_rand(region, func, rand_id) ==
    [attrs |-> {"region", "func", "dimensions", "rand"},
     region |-> region,
     func |-> func,
     dimensions |-> Len(region[1]),
     rand |-> 0,
     bin_num |-> 0,
     bins |-> <<>>]

Vegas(region, func, rand_id) ==
    [attrs |-> {"region", "func", "dimensions", "rand"},
     region |-> region,
     func |-> func,
     dimensions |-> Len(region[1]),
     rand |-> rand_id,
     bin_num |-> 0,
     bins |-> <<>>]

Snapshot(i) == [model |-> model[i], stream |-> streams[model[i].rand]]

Finished(status, value) ==
    [inst |-> frame.self, op |-> frame.op, args |-> frame.args,
     status |-> status, value |-> value, evals |-> frame.evals,
     pre |-> frame.pre]

Rejected(i, op, args, status) ==
    [inst |-> i, op |-> op, args |-> args, status |-> status, value |-> <<>>,
     evals |-> 0, pre |-> Snapshot(i)]

CallerMayCall(i) ==
    /\ pc = "idle"
    /\ caller.turn = i
    /\ caller.calls > 0

(***************************************************************************)
(* prepare_grid(bins_per_dimension, epochs, calls_per_epoch, alpha).       *)
(***************************************************************************)
prepare_grid_raise(i, a) ==
    /\ CallerMayCall(i)
    /\ a \in caller.train_args[i]
    /\ LeqEps(a.alpha)
    /\ log' = Append(log, Rejected(i, "prepare_grid", a, "To low alpha"))
    /\ caller' = [caller EXCEPT !.calls = @ - 1]
    /\ UNCHANGED <<model, streams, pc, frame, enum>>

\* The training continued from the grid of the object when it has one of
\* the same number of bins.
prepare_grid_enter_warm(i, a) ==
    /\ CallerMayCall(i)
    /\ a \in caller.train_args[i]
    /\ ~LeqEps(a.alpha)
    /\ LET bin_num == a.bins_per_dimension
           dimensions == Len(model[i].region[1])
           total_bins == Pow(bin_num, dimensions)
       IN  frame' = [op |-> "prepare_grid", self |-> i, args |-> a,
                     pre |-> Snapshot(i), evals |-> 0,
                     bin_num |-> bin_num, dimensions |-> dimensions,
                     bins |-> IF model[i].bin_num = bin_num
                              THEN model[i].bins
                              ELSE uniform_bins(bin_num, dimensions),
                     weights |-> uniform_weights(bin_num, dimensions),
                     total_bins |-> total_bins,
                     calls_per_bin |-> Min(a.calls_per_epoch \div total_bins, 2),
                     epoch |-> 0, visited |-> 0,
                     selected_bins |-> <<>>, distrib |-> <<>>,
                     integral |-> Zero, evaluations |-> <<>>,
                     zone |-> <<>>, points |-> <<>>, resized |-> 0]
    /\ pc' = "epochs"
    /\ caller' = [caller EXCEPT !.calls = @ - 1]
    /\ UNCHANGED <<model, streams, log, enum>>

\* calls_per_bin never below 1: every bin is sampled at least once.
prepare_grid_enter_at_least_one(i, a) ==
    /\ CallerMayCall(i)
    /\ a \in caller.train_args[i]
    /\ ~LeqEps(a.alpha)
    /\ LET bin_num == a.bins_per_dimension
           dimensions == Len(model[i].region[1])
           total_bins == Pow(bin_num, dimensions)
       IN  frame' = [op |-> "prepare_grid", self |-> i, args |-> a,
                     pre |-> Snapshot(i), evals |-> 0,
                     bin_num |-> bin_num, dimensions |-> dimensions,
                     bins |-> uniform_bins(bin_num, dimensions),
                     weights |-> uniform_weights(bin_num, dimensions),
                     total_bins |-> total_bins,
                     calls_per_bin |->
                         Max(Min(a.calls_per_epoch \div total_bins, 2), 1),
                     epoch |-> 0, visited |-> 0,
                     selected_bins |-> <<>>, distrib |-> <<>>,
                     integral |-> Zero, evaluations |-> <<>>,
                     zone |-> <<>>, points |-> <<>>, resized |-> 0]
    /\ pc' = "epochs"
    /\ caller' = [caller EXCEPT !.calls = @ - 1]
    /\ UNCHANGED <<model, streams, log, enum>>

prepare_grid_enter(i, a) ==
    /\ CallerMayCall(i)
    /\ a \in caller.train_args[i]
    /\ ~LeqEps(a.alpha)
    /\ LET bin_num == a.bins_per_dimension
           dimensions == Len(model[i].region[1])
           total_bins == Pow(bin_num, dimensions)
       IN  frame' = [op |-> "prepare_grid", self |-> i, args |-> a,
                     pre |-> Snapshot(i), evals |-> 0,
                     bin_num |-> bin_num, dimensions |-> dimensions,
                     bins |-> uniform_bins(bin_num, dimensions),
                     weights |-> uniform_weights(bin_num, dimensions),
                     total_bins |-> total_bins,
                     calls_per_bin |-> Min(a.calls_per_epoch \div total_bins, 2),
                     epoch |-> 0, visited |-> 0,
                     selected_bins |-> <<>>, distrib |-> <<>>,
                     integral |-> Zero, evaluations |-> <<>>,
                     zone |-> <<>>, points |-> <<>>, resized |-> 0]
    /\ pc' = "epochs"
    /\ caller' = [caller EXCEPT !.calls = @ - 1]
    /\ UNCHANGED <<model, streams, log, enum>>

\* np.zeros((bin_num, dimensions))
zeros(rows, columns) ==
    LET entry(r, d) == Zero
    IN  Array([row \in 1..rows |->
            Array([col \in 1..columns |-> entry(row, col)])])

\* The epoch started with the accumulator of the epoch before.
epoch_start_keep ==
    /\ pc = "epochs"
    /\ frame.op = "prepare_grid"
    /\ frame.epoch < frame.args.epochs
    /\ frame' = [frame EXCEPT
                    !.selected_bins = ZeroIndex(frame.dimensions),
                    !.distrib = IF frame.epoch = 0
                                THEN zeros(frame.bin_num, frame.dimensions)
                                ELSE @,
                    !.visited = 0]
    /\ pc' = "bins"
    /\ UNCHANGED <<model, streams, log, caller, enum>>

\* for epoch in range(epochs): the fresh index vector and accumulator
epoch_start ==
    /\ pc = "epochs"
    /\ frame.op = "prepare_grid"
    /\ frame.epoch < frame.args.epochs
    /\ frame' = [frame EXCEPT
                    !.selected_bins = ZeroIndex(frame.dimensions),
                    !.distrib = zeros(frame.bin_num, frame.dimensions),
                    !.visited = 0]
    /\ pc' = "bins"
    /\ UNCHANGED <<model, streams, log, caller, enum>>

\* One turn of `for _ in range(total_bins)` of prepare_grid.
TrainVisit ==
    LET self == model[frame.self]
        zone == get_selected_region(self.region, frame.bins, frame.selected_bins)
        volume == zone_volume(zone)
    IN  [zone |-> zone,
         res |-> sample_steps(self.func, zone, volume, frame.calls_per_bin, TRUE,
                              streams[self.rand], Zero, <<>>)]

\* The importance added along the first dimension only.
project_first_axis(distrib, selected_bins, mean_importance) ==
    LET entry(r, d) == IF selected_bins[d] + 1 = r /\ d = 1
                       THEN RAdd(distrib[r][d], mean_importance)
                       ELSE distrib[r][d]
    IN  Array([row \in 1..Len(distrib) |->
            Array([col \in 1..Len(selected_bins) |-> entry(row, col)])])

\* for i, j in zip(selected_bins, range(dimensions)): distrib[i,j] += mean_importance
project(distrib, selected_bins, mean_importance) ==
    LET entry(r, d) == IF selected_bins[d] + 1 = r
                       THEN RAdd(distrib[r][d], mean_importance)
                       ELSE distrib[r][d]
    IN  Array([row \in 1..Len(distrib) |->
            Array([col \in 1..Len(selected_bins) |-> entry(row, col)])])

visit_bin ==
    /\ pc = "bins"
    /\ frame.op = "prepare_grid"
    /\ frame.visited < frame.total_bins
    /\ LET v == TrainVisit
       IN  /\ ~v.res.raised
           /\ frame' = [frame EXCEPT
                  !.zone = v.zone,
                  !.points = v.res.points,
                  !.evals = @ + Len(v.res.points),
                  !.distrib = project(@, frame.selected_bins, v.res.value),
                  !.selected_bins = get_next_index(@, frame.bin_num),
                  !.visited = @ + 1]
           /\ streams' = [streams EXCEPT ![model[frame.self].rand] = v.res.stream]
    /\ UNCHANGED <<model, pc, log, caller, enum>>

\* The integrand raises: the exception leaves prepare_grid.
visit_bin_raise ==
    /\ pc = "bins"
    /\ frame.op = "prepare_grid"
    /\ frame.visited < frame.total_bins
    /\ LET v == TrainVisit
       IN  /\ v.res.raised
           /\ streams' = [streams EXCEPT ![model[frame.self].rand] = v.res.stream]
           /\ log' = Append(log,
                  [Finished("func raised", <<>>) EXCEPT
                      !.evals = frame.evals + Len(v.res.points)])
    /\ pc' = "idle"
    /\ frame' = NoFrame
    /\ UNCHANGED <<model, caller, enum>>

\* The resize made on self.bins: the grid of the object is rewritten while
\* the training runs.
epoch_end_in_place ==
    /\ pc = "bins"
    /\ frame.op = "prepare_grid"
    /\ frame.visited = frame.total_bins
    /\ LET out == resize_grid(frame.bins, frame.weights, frame.distrib,
                              float_value(frame.args.alpha))
       IN  /\ frame' = [frame EXCEPT !.bins = out[1], !.weights = out[2],
                                     !.epoch = @ + 1, !.resized = @ + 1]
           /\ model' = [model EXCEPT
                           ![frame.self].attrs = @ \cup {"bin_num", "bins"},
                           ![frame.self].bin_num = frame.bin_num,
                           ![frame.self].bins = out[1]]
    /\ pc' = "epochs"
    /\ UNCHANGED <<streams, log, caller, enum>>

\* bins, weights = Vegas.resize_grid(bins, weights, distrib, alpha)
epoch_end ==
    /\ pc = "bins"
    /\ frame.op = "prepare_grid"
    /\ frame.visited = frame.total_bins
    /\ LET out == resize_grid(frame.bins, frame.weights, frame.distrib,
                              float_value(frame.args.alpha))
       IN  frame' = [frame EXCEPT !.bins = out[1], !.weights = out[2],
                                  !.epoch = @ + 1, !.resized = @ + 1]
    /\ pc' = "epochs"
    /\ UNCHANGED <<model, streams, log, caller, enum>>

\* self.bin_num = bin_num; self.dimensions = dimensions; self.bins = bins
commit ==
    /\ pc = "epochs"
    /\ frame.op = "prepare_grid"
    /\ frame.epoch = frame.args.epochs
    /\ model' = [model EXCEPT
                    ![frame.self].attrs = @ \cup {"bin_num", "bins"},
                    ![frame.self].bin_num = frame.bin_num,
                    ![frame.self].dimensions = frame.dimensions,
                    ![frame.self].bins = frame.bins]
    /\ log' = Append(log, Finished("ok", <<>>))
    /\ pc' = "idle"
    /\ frame' = NoFrame
    /\ UNCHANGED <<streams, caller, enum>>

(***************************************************************************)
(* integrate(times, number_of_calls).                                      *)
(***************************************************************************)
\* times<=0 and number_of_calls<=0: both must be wrong for the call to be
\* rejected.
InvalidParams_and(a) == a.times <= 0 /\ a.number_of_calls <= 0

\* if times<=0 or number_of_calls<=0
InvalidParams(a) == a.times <= 0 \/ a.number_of_calls <= 0

integrate_raise(i, a) ==
    /\ CallerMayCall(i)
    /\ a \in caller.integrate_args[i]
    /\ InvalidParams(a)
    /\ log' = Append(log, Rejected(i, "integrate", a, "Incorrect params"))
    /\ caller' = [caller EXCEPT !.calls = @ - 1]
    /\ UNCHANGED <<model, streams, pc, frame, enum>>

\* self.bins read as the first statement of integrate, before the
\* parameters are looked at.
integrate_no_grid_first(i, a) ==
    /\ CallerMayCall(i)
    /\ a \in caller.integrate_args[i]
    /\ "bins" \notin model[i].attrs
    /\ log' = Append(log, Rejected(i, "integrate", a, "AttributeError"))
    /\ caller' = [caller EXCEPT !.calls = @ - 1]
    /\ UNCHANGED <<model, streams, pc, frame, enum>>

\* bins, bin_num, dimensions = self.bins, ... on an object without the
\* attribute bins: AttributeError
integrate_no_grid(i, a) ==
    /\ CallerMayCall(i)
    /\ a \in caller.integrate_args[i]
    /\ ~InvalidParams(a)
    /\ "bins" \notin model[i].attrs
    /\ log' = Append(log, Rejected(i, "integrate", a, "AttributeError"))
    /\ caller' = [caller EXCEPT !.calls = @ - 1]
    /\ UNCHANGED <<model, streams, pc, frame, enum>>

integrate_enter(i, a) ==
    /\ CallerMayCall(i)
    /\ a \in caller.integrate_args[i]
    /\ ~InvalidParams(a)
    /\ "bins" \in model[i].attrs
    /\ LET bin_num == model[i].bin_num
           dimensions == model[i].dimensions
           total_bins == Pow(bin_num, dimensions)
       IN  frame' = [op |-> "integrate", self |-> i, args |-> a,
                     pre |-> Snapshot(i), evals |-> 0,
                     bin_num |-> bin_num, dimensions |-> dimensions,
                     bins |-> model[i].bins,
                     weights |-> <<>>,
                     total_bins |-> total_bins,
                     calls_per_bin |-> Max(a.number_of_calls \div total_bins, 2),
                     epoch |-> 0, visited |-> 0,
                     selected_bins |-> <<>>, distrib |-> <<>>,
                     integral |-> Zero, evaluations |-> <<>>,
                     zone |-> <<>>, points |-> <<>>, resized |-> 0]
    /\ pc' = "times"
    /\ caller' = [caller EXCEPT !.calls = @ - 1]
    /\ UNCHANGED <<model, streams, log, enum>>

\* for _ in range(times): the fresh index vector and integral
repeat_start ==
    /\ pc = "times"
    /\ frame.op = "integrate"
    /\ frame.epoch < frame.args.times
    /\ frame' = [frame EXCEPT !.selected_bins = ZeroIndex(frame.dimensions),
                              !.integral = Zero,
                              !.visited = 0]
    /\ pc' = "bins"
    /\ UNCHANGED <<model, streams, log, caller, enum>>

\* The turn of integrate made on absolute values, as prepare_grid does.
IntegrateVisit_abs ==
    LET self == model[frame.self]
        zone == get_selected_region(self.region, frame.bins, frame.selected_bins)
        volume == zone_volume(zone)
    IN  [zone |-> zone,
         res |-> sample_steps(self.func, zone, volume, frame.calls_per_bin, TRUE,
                              streams[self.rand], Zero, <<>>)]

\* One turn of `for _ in range(total_bins)` of integrate.
IntegrateVisit ==
    LET self == model[frame.self]
        zone == get_selected_region(self.region, frame.bins, frame.selected_bins)
        volume == zone_volume(zone)
    IN  [zone |-> zone,
         res |-> sample_steps(self.func, zone, volume, frame.calls_per_bin, FALSE,
                              streams[self.rand], Zero, <<>>)]

integrate_bin ==
    /\ pc = "bins"
    /\ frame.op = "integrate"
    /\ frame.visited < frame.total_bins
    /\ LET v == IntegrateVisit
       IN  /\ ~v.res.raised
           /\ frame' = [frame EXCEPT
                  !.zone = v.zone,
                  !.points = v.res.points,
                  !.evals = @ + Len(v.res.points),
                  !.integral = RAdd(@, v.res.value),
                  !.selected_bins = get_next_index(@, frame.bin_num),
                  !.visited = @ + 1]
           /\ streams' = [streams EXCEPT ![model[frame.self].rand] = v.res.stream]
    /\ UNCHANGED <<model, pc, log, caller, enum>>

\* The integrand raises: the exception leaves integrate.
integrate_bin_raise ==
    /\ pc = "bins"
    /\ frame.op = "integrate"
    /\ frame.visited < frame.total_bins
    /\ LET v == IntegrateVisit
       IN  /\ v.res.raised
           /\ streams' = [streams EXCEPT ![model[frame.self].rand] = v.res.stream]
           /\ log' = Append(log,
                  [Finished("func raised", <<>>) EXCEPT
                      !.evals = frame.evals + Len(v.res.points)])
    /\ pc' = "idle"
    /\ frame' = NoFrame
    /\ UNCHANGED <<model, caller, enum>>

\* evaluations.append(integral)
repeat_end ==
    /\ pc = "bins"
    /\ frame.op = "integrate"
    /\ frame.visited = frame.total_bins
    /\ frame' = [frame EXCEPT !.evaluations = Append(@, frame.integral),
                              !.epoch = @ + 1]
    /\ pc' = "times"
    /\ UNCHANGED <<model, streams, log, caller, enum>>

\* np.mean(evaluations) and np.var(evaluations): the variance divides by the
\* number of evaluations.
mean_of(evaluations) == RDiv(RSum(evaluations), Rat(Len(evaluations), 1))

var_of(evaluations) ==
    LET m == mean_of(evaluations)
    IN  RDiv(RSum(Array([k \in 1..Len(evaluations) |->
                      RMul(RSub(evaluations[k], m), RSub(evaluations[k], m))])),
             Rat(Len(evaluations), 1))

\* The return that leaves the uniform grid in self.bins.
integrate_return_reset ==
    /\ pc = "times"
    /\ frame.op = "integrate"
    /\ frame.epoch = frame.args.times
    /\ log' = Append(log, Finished("ok",
                  <<mean_of(frame.evaluations), var_of(frame.evaluations)>>))
    /\ model' = [model EXCEPT ![frame.self].bins =
                                  uniform_bins(frame.bin_num, frame.dimensions)]
    /\ pc' = "idle"
    /\ frame' = NoFrame
    /\ UNCHANGED <<streams, caller, enum>>

\* return np.mean(evaluations), np.var(evaluations)**0.5 ; the second
\* component is kept as the number whose square root is returned.
integrate_return ==
    /\ pc = "times"
    /\ frame.op = "integrate"
    /\ frame.epoch = frame.args.times
    /\ log' = Append(log, Finished("ok",
                  <<mean_of(frame.evaluations), var_of(frame.evaluations)>>))
    /\ pc' = "idle"
    /\ frame' = NoFrame
    /\ UNCHANGED <<model, streams, caller, enum>>

(***************************************************************************)
(* The caller: the regions, integrands, random sources and arguments it    *)
(* uses.  Exact rationals of a third epoch or of more bins do not fit the  *)
(* integers of TLC, which is why the epochs and bins are these sets.       *)
(***************************************************************************)
MaxCalls == 2

Regions ==
    { << <<Zero>>, <<Rat(2, 1)>> >>,
      << <<Rat(-1, 1), Zero>>, <<One, Rat(2, 1)>> >> }

Seed == 7

Alphas ==
    { Float(Zero, 0), Float(One, 1), Float(Rat(2, 1), 1),
      Float(Rat(1, 2), 0), Float(One, 0) }

TrainArgs(dimensions) ==
    { a \in [bins_per_dimension : {1, 2, 3}, epochs : {0, 1, 2},
             calls_per_epoch : {0, 3, 8}, alpha : Alphas] :
        /\ Pow(a.bins_per_dimension, dimensions) <= 4
        /\ a.epochs = 0 <=> a.alpha \notin {Float(Rat(1, 2), 0), Float(One, 0)}
        /\ a.epochs = 0 => a.calls_per_epoch = 0 /\ a.bins_per_dimension = 2
        /\ a.alpha = Float(Rat(1, 2), 0) =>
               a.epochs = 1 /\ a.calls_per_epoch = 8 /\ a.bins_per_dimension = 2
        /\ a.calls_per_epoch = 0 => a.bins_per_dimension = 2 /\ a.epochs <= 1
        /\ a.calls_per_epoch = 3 => a.epochs = 1 /\ a.bins_per_dimension <= 2
        /\ a.bins_per_dimension = 1 => a.calls_per_epoch = 3
        /\ a.bins_per_dimension = 3 => a.calls_per_epoch = 8 }

IntegrateArgs ==
    { a \in [times : {0, 1, 2}, number_of_calls : {0, 1, 9}] :
        /\ a.times = 0 => a.number_of_calls = 1
        /\ a.number_of_calls = 0 => a.times = 1
        /\ a.number_of_calls = 9 <=> a.times = 2 }

\* One model object; its random source is the default argument (stream 0,
\* made once when the class is defined) or a RandomState the caller made
\* (stream 1).
Init ==
    /\ enum = EnumIdle
    /\ \E region \in Regions, func \in Funcs, rand_id \in {0, 1} :
          /\ model = << Vegas(region, func, rand_id) >>
          /\ streams = [k \in 0..rand_id |->
                           IF k = 0 THEN RandomState(DefaultSeed)
                                    ELSE RandomState(Seed)]
          /\ caller = [train_args |-> << TrainArgs(Len(region[1])) >>,
                       integrate_args |-> << IntegrateArgs >>,
                       calls |-> MaxCalls, turn |-> 1]
    /\ pc = "idle"
    /\ frame = NoFrame
    /\ log = <<>>

Next ==
    \/ \E i \in DOMAIN model : \E a \in caller.train_args[i] :
          prepare_grid_raise(i, a)
    \/ \E i \in DOMAIN model : \E a \in caller.train_args[i] :
          prepare_grid_enter(i, a)
    \/ epoch_start
    \/ visit_bin
    \/ visit_bin_raise
    \/ epoch_end
    \/ commit
    \/ \E i \in DOMAIN model : \E a \in caller.integrate_args[i] :
          integrate_raise(i, a)
    \/ \E i \in DOMAIN model : \E a \in caller.integrate_args[i] :
          integrate_no_grid(i, a)
    \/ \E i \in DOMAIN model : \E a \in caller.integrate_args[i] :
          integrate_enter(i, a)
    \/ repeat_start
    \/ integrate_bin
    \/ integrate_bin_raise
    \/ repeat_end
    \/ integrate_return

Spec == Init /\ [][Next]_vars

(***************************************************************************)
(* Repeated runs: the caller builds one model object per run over the same *)
(* region and integrand, each with a RandomState of its own made from the  *)
(* same seed, and makes the calls of a run with the same arguments.  The   *)
(* runs follow one another.                                                *)
(***************************************************************************)
InitRuns ==
    /\ enum = EnumIdle
    /\ \E region \in Regions, func \in Funcs :
       \E train \in TrainArgs(Len(region[1])), integ \in IntegrateArgs :
          /\ model = << Vegas(region, func, 1), Vegas(region, func, 2) >>
          /\ streams = [k \in 0..2 |->
                           IF k = 0 THEN RandomState(DefaultSeed)
                                    ELSE RandomState(Seed)]
          /\ caller = [train_args |-> << {train}, {train} >>,
                       integrate_args |-> << {integ}, {integ} >>,
                       calls |-> MaxCalls, turn |-> 1]
    /\ pc = "idle"
    /\ frame = NoFrame
    /\ log = <<>>

next_run ==
    /\ pc = "idle"
    /\ caller.turn < Len(model)
    /\ caller' = [caller EXCEPT !.turn = @ + 1, !.calls = MaxCalls]
    /\ UNCHANGED <<model, streams, pc, frame, log, enum>>

NextRuns ==
    \/ Next
    \/ next_run

SpecRuns == InitRuns /\ [][NextRuns]_vars

(***************************************************************************)
(* Repeated integration: the caller of the test cells, which trains one    *)
(* model with one set of arguments and integrates it again and again.  It  *)
(* has one call more than the caller of Spec and fewer arguments to choose *)
(* from.                                                                   *)
(***************************************************************************)
RepeatTrainArgs ==
    { a \in TrainArgs(1) :
        /\ a.bins_per_dimension = 2
        /\ a.alpha \in {Float(Zero, 0), Float(Rat(2, 1), 1), Float(One, 0)}
        /\ a.epochs \in {0, 2} }
    \cup
    { [bins_per_dimension |-> 2, epochs |-> 2, calls_per_epoch |-> 1,
       alpha |-> alpha] : alpha \in {Float(Rat(2, 1), 1), Float(Rat(1, 2), 0)} }

RepeatIntegrateArgs == { a \in IntegrateArgs : a.number_of_calls <= 1 }

InitRepeat ==
    /\ enum = EnumIdle
    /\ \E region \in Regions, func \in Funcs :
          /\ model = << Vegas(region, func, 1) >>
          /\ streams = [k \in 0..1 |->
                           IF k = 0 THEN RandomState(DefaultSeed)
                                    ELSE RandomState(Seed)]
          /\ caller = [train_args |-> << RepeatTrainArgs >>,
                       integrate_args |-> << RepeatIntegrateArgs >>,
                       calls |-> MaxCalls + 1, turn |-> 1]
    /\ pc = "idle"
    /\ frame = NoFrame
    /\ log = <<>>

SpecRepeat == InitRepeat /\ [][Next]_vars

(***************************************************************************)
(* Two model objects built without a rand argument, as `model` and         *)
(* `model2` of the test cells are.  The default of the parameter,          *)
(* np.random.RandomState(164), is evaluated once, when __init__ is         *)
(* defined, so every construction that leaves rand out receives that one   *)
(* object: stream 0.  The caller uses the two objects in any order.        *)
(***************************************************************************)
\* A default made anew for every construction.
default_rand_fresh(i) == i

default_rand(i) == 0

SharedTrainArgs ==
    << { a \in TrainArgs(1) :
           /\ a.bins_per_dimension = 2
           /\ a.alpha \in {Float(Zero, 0), Float(Rat(2, 1), 1), Float(One, 0)}
           /\ a.epochs \in {0, 2} },
       { a \in TrainArgs(1) :
           /\ a.bins_per_dimension = 2
           /\ a.alpha = Float(One, 0)
           /\ a.epochs = 1 /\ a.calls_per_epoch = 8 } >>

SharedIntegrateArgs ==
    << { a \in IntegrateArgs : a.number_of_calls = 1 },
       { a \in IntegrateArgs : a.number_of_calls = 1 /\ a.times = 1 } >>

InitShared ==
    /\ enum = EnumIdle
    /\ \E region \in Regions, func \in Funcs :
          /\ model = << Vegas(region, func, default_rand(1)),
                        Vegas(region, func, default_rand(2)) >>
          /\ streams = [k \in 0..2 |->
                           IF k = 0 THEN RandomState(DefaultSeed)
                                    ELSE RandomState(Seed)]
          /\ caller = [train_args |-> SharedTrainArgs,
                       integrate_args |-> SharedIntegrateArgs,
                       calls |-> MaxCalls + 1, turn |-> 1]
    /\ pc = "idle"
    /\ frame = NoFrame
    /\ log = <<>>

\* Between two calls the caller turns to the other object.
other_instance ==
    /\ pc = "idle"
    /\ caller.calls > 0
    /\ caller' = [caller EXCEPT !.turn = (@ % Len(model)) + 1]
    /\ UNCHANGED <<model, streams, pc, frame, log, enum>>

NextShared ==
    \/ Next
    \/ other_instance

SpecShared == InitShared /\ [][NextShared]_vars


(***************************************************************************)
(* resize_grid on its own: it is a static method, called here by a caller  *)
(* that hands it a grid, weights that are non-negative and sum to 1 in     *)
(* every column, an alpha above zero and any non-negative subintegrals,    *)
(* and that hands the grid and weights it returns to the next call.        *)
(***************************************************************************)
MaxResizes == 2

Shapes == { <<1, 1>>, <<2, 1>>, <<3, 1>>, <<2, 2>> }

Subintegrals(cells) ==
    IF cells <= 3 THEN {Zero, One, Rat(3, 1)} ELSE {Zero, Rat(3, 1)}

Distributions(bin_num, dimensions) ==
    [1..bin_num -> [1..dimensions -> Subintegrals(bin_num * dimensions)]]

ramp_weights(bin_num, dimensions) ==
    LET weight(r, d) == Rat(2 * (r - 1), bin_num * (bin_num - 1))
    IN  Array([row \in 1..bin_num |->
            Array([col \in 1..dimensions |-> weight(row, col)])])

OldWeights(bin_num, dimensions) ==
    {uniform_weights(bin_num, dimensions)} \cup
        (IF bin_num > 1 THEN {ramp_weights(bin_num, dimensions)} ELSE {})

InitResize ==
    /\ VegasIdle
    /\ enum = EnumIdle
    /\ \E shape \in Shapes, alpha \in {Rat(1, 2), One, Rat(2, 1)} :
       \E weights \in OldWeights(shape[1], shape[2]) :
          frame = [op |-> "resize_grid",
                   bin_num |-> shape[1], dimensions |-> shape[2],
                   bins |-> uniform_bins(shape[1], shape[2]),
                   weights |-> weights, alpha |-> alpha,
                   distrib |-> <<>>, resized |-> 0]

resize_call(subintegrals) ==
    /\ frame.op = "resize_grid"
    /\ frame.resized < MaxResizes
    /\ LET out == resize_grid(frame.bins, frame.weights, subintegrals, frame.alpha)
       IN  frame' = [frame EXCEPT !.bins = out[1], !.weights = out[2],
                                  !.distrib = subintegrals, !.resized = @ + 1]
    /\ UNCHANGED <<model, streams, pc, log, caller, enum>>

NextResize ==
    \E subintegrals \in Distributions(frame.bin_num, frame.dimensions) :
        resize_call(subintegrals)

SpecResize == InitResize /\ [][NextResize]_vars

(***************************************************************************)
(* Properties of the enumerator, under SpecEnum.                           *)
(***************************************************************************)
EnumTotal == Pow(enum.limit, Len(enum.indices))

EnumZero == ZeroIndex(Len(enum.indices))

Visited(k) == { enum.seen[j] : j \in 1..k }

\* C1: from the zero vector, limit^dims calls of get_next_index visit every
\* one of the limit^dims combinations exactly once, and the vector is the
\* zero vector after the last of these calls and after no earlier one.
C1_CycleClosure ==
    /\ \A k \in 1..Len(enum.seen) : (enum.seen[k] = EnumZero) <=> (k = EnumTotal)
    /\ enum.calls = EnumTotal =>
          /\ Len(enum.seen) = EnumTotal
          /\ Visited(EnumTotal) = AllIndices(enum.limit, Len(enum.indices))
          /\ Cardinality(Visited(EnumTotal)) = EnumTotal
          /\ enum.indices = EnumZero

C1_Witness ==
    /\ enum.calls = EnumTotal
    /\ enum.limit >= 3
    /\ Len(enum.indices) >= 2

\* C2: while fewer than limit^dims calls have been made, the zero vector and
\* the vectors after each call are pairwise distinct, and every component of
\* every vector is in 0..limit-1.
C2_NoRepeatInRange ==
    /\ enum.calls < EnumTotal =>
          Cardinality({EnumZero} \cup Visited(enum.calls)) = enum.calls + 1
    /\ \A d \in 1..Len(enum.indices) : enum.indices[d] \in 0..(enum.limit - 1)
    /\ \A k \in 1..Len(enum.seen) : \A d \in 1..Len(enum.seen[k]) :
          enum.seen[k][d] \in 0..(enum.limit - 1)

C2_Witness ==
    /\ enum.calls = EnumTotal - 1
    /\ enum.calls >= 8
    /\ Len(enum.indices) >= 2
    /\ enum.indices # EnumZero


(***************************************************************************)
(* Properties of the calls, read from the log of finished calls.           *)
(***************************************************************************)
JustFinished == pc = "idle" /\ log # <<>>

LastCall == log[Len(log)]

TrainedBefore(k) ==
    \E j \in 1..(k - 1) :
        /\ log[j].inst = log[k].inst
        /\ log[j].op = "prepare_grid"
        /\ log[j].status = "ok"

ValidIntegrate(e) ==
    e.op = "integrate" /\ e.args.times > 0 /\ e.args.number_of_calls > 0

AboveEps(x) ==
    IF x.eps_exp = 1 THEN x.mant[1] > x.mant[2] ELSE x.mant[1] > 0

\* C3: integrate with times > 0 and number_of_calls > 0 on an object on
\* which no prepare_grid has completed fails: it returns no result, calls
\* the integrand zero times and draws nothing from the random source; the
\* body of integrate is never entered for such an object.
C3_UntrainedIntegrateFails ==
    /\ \A k \in DOMAIN log :
          ValidIntegrate(log[k]) /\ ~TrainedBefore(k) =>
              /\ log[k].status = "AttributeError"
              /\ log[k].value = <<>>
              /\ log[k].evals = 0
    /\ JustFinished /\ ValidIntegrate(LastCall) /\ ~TrainedBefore(Len(log)) =>
          streams[model[LastCall.inst].rand] = LastCall.pre.stream
    /\ frame.op = "integrate" =>
          \E j \in DOMAIN log :
              /\ log[j].inst = frame.self
              /\ log[j].op = "prepare_grid"
              /\ log[j].status = "ok"

C3_Witness ==
    /\ JustFinished
    /\ Len(log) = 2
    /\ log[1].op = "prepare_grid" /\ log[1].status = "func raised"
    /\ log[1].evals > 0
    /\ ValidIntegrate(log[2]) /\ log[2].status = "AttributeError"

\* C4: integrate is rejected with "Incorrect params" exactly when times <= 0
\* or number_of_calls <= 0; a rejected call has called the integrand zero
\* times and leaves the object (grid, bin_num, dimensions) and the random
\* stream as they were before the call.
C4_IntegrateValidation ==
    /\ \A k \in DOMAIN log :
          log[k].op = "integrate" =>
              ( log[k].status = "Incorrect params"
                  <=> (log[k].args.times <= 0 \/ log[k].args.number_of_calls <= 0) )
    /\ \A k \in DOMAIN log :
          log[k].status = "Incorrect params" =>
              log[k].evals = 0 /\ log[k].value = <<>>
    /\ JustFinished /\ LastCall.status = "Incorrect params" =>
          /\ model[LastCall.inst] = LastCall.pre.model
          /\ streams[model[LastCall.inst].rand] = LastCall.pre.stream
    /\ frame.op = "integrate" =>
          frame.args.times > 0 /\ frame.args.number_of_calls > 0

C4_Witness ==
    /\ JustFinished
    /\ Len(log) = 2
    /\ log[1].op = "prepare_grid" /\ log[1].status = "ok" /\ log[1].evals > 0
    /\ log[2].op = "integrate" /\ log[2].status = "Incorrect params"
    /\ log[2].args.number_of_calls = 0
    /\ "bins" \in model[1].attrs

\* C5: prepare_grid is rejected with "To low alpha" exactly when alpha is
\* not above machine epsilon; a rejected call has called the integrand zero
\* times and leaves the object (trained or not) and the random stream as
\* they were before the call.
C5_TrainValidation ==
    /\ \A k \in DOMAIN log :
          log[k].op = "prepare_grid" =>
              (log[k].status = "To low alpha" <=> ~AboveEps(log[k].args.alpha))
    /\ \A k \in DOMAIN log :
          log[k].status = "To low alpha" => log[k].evals = 0
    /\ JustFinished /\ LastCall.status = "To low alpha" =>
          /\ model[LastCall.inst] = LastCall.pre.model
          /\ streams[model[LastCall.inst].rand] = LastCall.pre.stream
    /\ frame.op = "prepare_grid" => AboveEps(frame.args.alpha)

C5_Witness ==
    /\ JustFinished
    /\ Len(log) = 2
    /\ log[1].op = "prepare_grid" /\ log[1].status = "ok" /\ log[1].evals > 0
    /\ log[2].op = "prepare_grid" /\ log[2].status = "To low alpha"
    /\ log[2].args.alpha = Float(One, 1)
    /\ "bins" \in model[1].attrs

\* C6: the object is not written while prepare_grid runs; after a
\* prepare_grid that failed the object is what it was before the call; after
\* one that succeeded it holds the bin_num and dimensions of the call and a
\* grid of bin_num + 1 rows; integrate works on the grid the object holds.
C6_AllOrNothing ==
    /\ frame.op = "prepare_grid" => model[frame.self] = frame.pre.model
    /\ JustFinished /\ LastCall.op = "prepare_grid" /\ LastCall.status # "ok" =>
          model[LastCall.inst] = LastCall.pre.model
    /\ JustFinished /\ LastCall.op = "prepare_grid" /\ LastCall.status = "ok" =>
          LET self == model[LastCall.inst]
          IN  /\ {"bins", "bin_num"} \subseteq self.attrs
              /\ self.bin_num = LastCall.args.bins_per_dimension
              /\ self.dimensions = Len(self.region[1])
              /\ Len(self.bins) = self.bin_num + 1
    /\ frame.op = "integrate" =>
          /\ frame.bins = model[frame.self].bins
          /\ model[frame.self] = frame.pre.model

C6_Witness ==
    /\ JustFinished
    /\ Len(log) = 2
    /\ log[1].op = "prepare_grid" /\ log[1].status = "ok"
    /\ log[2].op = "prepare_grid" /\ log[2].status = "func raised"
    /\ log[2].evals > 0
    /\ log[2].args.bins_per_dimension # log[1].args.bins_per_dimension
    /\ model[1].bin_num = log[1].args.bins_per_dimension

\* C7: two runs over the same region and integrand, each with a random
\* source of its own made from the same seed, that have made the same calls
\* with the same arguments have had the same outcomes call by call (status,
\* estimate and error, number of integrand calls) and, once both are
\* finished, hold the same grid and the same stream position.
Calls(i) == SelectSeq(log, LAMBDA e : e.inst = i)

SameCalls(a, b, k) ==
    \A j \in 1..k : a[j].op = b[j].op /\ a[j].args = b[j].args

EdgesOk(bins, bin_num) ==
    \A d \in 1..Len(bins[1]) :
        /\ \A r \in 1..bin_num :
              RLt(Zero, bins[r][d]) /\ RLeq(bins[r][d], One)
        /\ \A r \in 1..(bin_num - 1) : RLeq(bins[r][d], bins[r + 1][d])
        /\ bins[bin_num][d] = One

C8_EdgesMonotone ==
    /\ \A i \in DOMAIN model :
          "bins" \in model[i].attrs =>
              /\ Len(model[i].bins) = model[i].bin_num + 1
              /\ EdgesOk(model[i].bins, model[i].bin_num)
    /\ frame.op = "prepare_grid" =>
          /\ Len(frame.bins) = frame.bin_num + 1
          /\ EdgesOk(frame.bins, frame.bin_num)

C8_Witness ==
    /\ JustFinished
    /\ LastCall.op = "prepare_grid" /\ LastCall.status = "ok"
    /\ LastCall.args.epochs = 2
    /\ model[1].bin_num = 3
    /\ model[1].bins # uniform_bins(3, model[1].dimensions)

\* C10: for every grid prepare_grid works on and every grid an object holds,
\* and every index vector in [0, bin_num)^dimensions, the box of the index
\* lies in the region with lower <= upper; per dimension the box of index 0
\* starts at the lower bound of the region, the upper bound of index i is
\* the lower bound of index i + 1, and the box of index bin_num - 1 ends at
\* the upper bound of the region.
TilesRegion(region, bins, bin_num) ==
    \A indices \in AllIndices(bin_num, Len(region[1])) :
        LET box == get_selected_region(region, bins, indices)
        IN  \A d \in 1..Len(region[1]) :
                /\ RLeq(region[1][d], box[1][d])
                /\ RLeq(box[1][d], box[2][d])
                /\ RLeq(box[2][d], region[2][d])
                /\ indices[d] = 0 => box[1][d] = region[1][d]
                /\ indices[d] = bin_num - 1 => box[2][d] = region[2][d]
                /\ indices[d] < bin_num - 1 =>
                      box[2][d] = get_selected_region(region, bins,
                                      [indices EXCEPT ![d] = @ + 1])[1][d]

C10_SubregionTiling ==
    /\ \A i \in DOMAIN model :
          "bins" \in model[i].attrs =>
              TilesRegion(model[i].region, model[i].bins, model[i].bin_num)
    /\ frame.op = "prepare_grid" =>
          TilesRegion(model[frame.self].region, frame.bins, frame.bin_num)

C10_Witness ==
    /\ frame.op = "prepare_grid"
    /\ frame.resized >= 1
    /\ frame.dimensions = 2
    /\ frame.bin_num = 2
    /\ frame.bins # uniform_bins(2, 2)
    /\ frame.zone # <<>>


\* C9: the weights resize_grid returns, for non-negative subintegrals, an
\* alpha above zero and old weights that are non-negative and sum to 1 in
\* every column, are non-negative and sum to 1 in every column; so are the
\* weights prepare_grid holds in every state of a training.
WeightsOk(weights) ==
    \A d \in 1..Len(weights[1]) :
        /\ \A r \in 1..Len(weights) : RLeq(Zero, weights[r][d])
        /\ RSum(Col(weights, d)) = One

C9_WeightsNormalized ==
    frame.op \in {"resize_grid", "prepare_grid"} => WeightsOk(frame.weights)

C9_Witness ==
    /\ frame.op = "resize_grid"
    /\ frame.resized = 2
    /\ frame.dimensions = 2
    /\ frame.distrib = << <<Zero, Rat(3, 1)>>, <<Zero, Zero>> >>
    /\ frame.weights[1] # frame.weights[2]
    /\ frame.weights[1][1] # frame.weights[1][2]


\* C11: on the grid prepare_grid starts from (before any resize) and on the
\* grid committed by a prepare_grid of zero epochs, the volumes of the boxes
\* of all bin_num^dimensions index vectors, taken in the order of
\* get_next_index from the zero vector, add up to the volume of the region.
RECURSIVE volume_walk(_, _, _, _, _)
volume_walk(region, bins, bin_num, indices, left) ==
    IF left = 0 THEN Zero
    ELSE RAdd(zone_volume(get_selected_region(region, bins, indices)),
              volume_walk(region, bins, bin_num,
                          get_next_index(indices, bin_num), left - 1))

EnumeratedVolume(region, bins, bin_num) ==
    volume_walk(region, bins, bin_num, ZeroIndex(Len(region[1])),
                Pow(bin_num, Len(region[1])))

RegionVolume(region) ==
    RProd(Array([d \in 1..Len(region[1]) |-> RSub(region[2][d], region[1][d])]))

C11_UniformVolumes ==
    /\ frame.op = "prepare_grid" /\ frame.resized = 0 =>
          EnumeratedVolume(model[frame.self].region, frame.bins, frame.bin_num)
              = RegionVolume(model[frame.self].region)
    /\ JustFinished /\ LastCall.op = "prepare_grid" /\ LastCall.status = "ok"
          /\ LastCall.args.epochs = 0 =>
          LET self == model[LastCall.inst]
          IN  EnumeratedVolume(self.region, self.bins, self.bin_num)
                  = RegionVolume(self.region)

C11_Witness ==
    /\ JustFinished
    /\ LastCall.op = "prepare_grid" /\ LastCall.status = "ok"
    /\ LastCall.args.epochs = 0
    /\ model[1].dimensions = 2
    /\ model[1].bin_num = 2
    /\ RegionVolume(model[1].region) = Rat(4, 1)
    /\ EnumeratedVolume(model[1].region, model[1].bins, 2) = Rat(4, 1)


\* C12: for the constant integrand, whatever the training before it and
\* whatever the draws, every evaluation of integrate is the constant times
\* the volume of the region, so the estimate is that number and the
\* dispersion is zero.
ConstIntegral(region) == RMul(ConstValue, RegionVolume(region))

C12_ConstantIntegrand ==
    /\ frame.op = "integrate" /\ model[frame.self].func = "const" =>
          /\ \A k \in DOMAIN frame.evaluations :
                frame.evaluations[k] = ConstIntegral(model[frame.self].region)
          /\ pc = "bins" /\ frame.visited = frame.total_bins =>
                frame.integral = ConstIntegral(model[frame.self].region)
    /\ \A k \in DOMAIN log :
          log[k].op = "integrate" /\ log[k].status = "ok"
              /\ model[log[k].inst].func = "const" =>
                  log[k].value = <<ConstIntegral(model[log[k].inst].region), Zero>>

C12_Witness ==
    /\ JustFinished
    /\ Len(log) = 2
    /\ model[1].func = "const"
    /\ model[1].dimensions = 2
    /\ log[1].op = "prepare_grid" /\ log[1].status = "ok" /\ log[1].args.epochs = 2
    /\ log[1].evals > 0
    /\ log[2].op = "integrate" /\ log[2].status = "ok" /\ log[2].args.times = 2
    /\ log[2].value = <<Rat(-12, 1), Zero>>


\* C13: in prepare_grid the integrand is called calls_per_bin =
\* min(calls_per_epoch // bin_num^dimensions, 2) times for every bin
\* combination of every epoch: the number is at most 2, it is the number of
\* points of each visit, and the calls made so far are that number times the
\* combinations visited so far.
TrainCallsPerBin(a, dimensions) ==
    LET share == a.calls_per_epoch \div Pow(a.bins_per_dimension, dimensions)
    IN  IF share > 2 THEN 2 ELSE share

GridBins(self) == Pow(self.bin_num, self.dimensions)

IntegrateCallsPerBin(a, total) ==
    LET share == a.number_of_calls \div total
    IN  IF share < 2 THEN 2 ELSE share

SignedMean(func, points) ==
    RDiv(RSum(Array([k \in 1..Len(points) |-> func_call(func, points[k]).value])),
         Rat(Len(points), 1))

PopulationVariance(xs) ==
    LET square(x) == RMul(x, x)
        from(i) == RSum(Array([j \in 1..Len(xs) |-> square(RSub(xs[i], xs[j]))]))
    IN  RDiv(RSum(Array([i \in 1..Len(xs) |-> from(i)])),
             Rat(2 * Len(xs) * Len(xs), 1))

IntegrateStep ==
    /\ frame.op = "integrate" /\ pc = "times" /\ pc' = "bins" =>
          frame'.integral = Zero
    /\ frame.op = "integrate" /\ pc = "bins" /\ pc' = "bins" =>
          frame'.integral =
              RAdd(frame.integral,
                   RMul(RegionVolume(frame'.zone),
                        SignedMean(model[frame.self].func, frame'.points)))
    /\ frame.op = "integrate" /\ pc = "bins" /\ pc' = "times" =>
          /\ frame.visited = frame.total_bins
          /\ frame'.evaluations = Append(frame.evaluations, frame.integral)
    /\ frame.op = "integrate" /\ pc = "times" /\ pc' = "idle" =>
          /\ Len(frame.evaluations) = frame.args.times
          /\ log'[Len(log')].value =
                << RDiv(RSum(frame.evaluations), Rat(frame.args.times, 1)),
                   PopulationVariance(frame.evaluations) >>

C15_ReturnedStatistics == [][IntegrateStep]_vars

C15_Witness ==
    /\ JustFinished
    /\ LastCall.op = "integrate" /\ LastCall.status = "ok"
    /\ model[1].func = "step"
    /\ model[1].dimensions = 1
    /\ LastCall.args.times = 2
    /\ LastCall.value = <<Rat(5, 2), Rat(9, 4)>>


\* C17: prepare_grid and integrate draw from the one stream of the object,
\* one dimensions-long draw for each call of the integrand and in the order
\* of the calls: a completed prepare_grid advances the stream by
\* epochs * bin_num^dimensions * min(calls_per_epoch // bin_num^dimensions, 2)
\* draws, a completed integrate by
\* times * bin_num^dimensions * max(number_of_calls // bin_num^dimensions, 2),
\* a rejected call by none, and each call starts where the call before it
\* left the stream.
CurrentStream == streams[model[1].rand]

StreamAfter(k) ==
    IF k < Len(log) THEN log[k + 1].pre.stream
    ELSE IF frame.op # "none" THEN frame.pre.stream
    ELSE CurrentStream

DrawsOf(k) == StreamAfter(k).drawn - log[k].pre.stream.drawn

\* The point of the j-th sample of the visit just made, from the numbers at
\* the stream positions that follow the draws made before this visit.
PointFromStream(j) ==
    LET before == frame.evals - Len(frame.points) + (j - 1)
        start == rand_state(frame.pre.stream.state, before * frame.dimensions)
    IN  Array([d \in 1..frame.dimensions |->
            RAdd(frame.zone[1][d],
                 RMul(Rat(rand_state(start, d - 1) \div 4, 4),
                      RSub(frame.zone[2][d], frame.zone[1][d])))])

ModelAfter(k) ==
    IF k < Len(log) THEN log[k + 1].pre.model
    ELSE IF frame.op # "none" THEN frame.pre.model
    ELSE model[log[k].inst]

HasSentinel(self) ==
    "bins" \in self.attrs =>
        /\ Len(self.bins) = self.bin_num + 1
        /\ \A d \in 1..self.dimensions : self.bins[self.bin_num + 1][d] = Zero

C18_IntegrateReadsOnly ==
    /\ frame.op = "integrate" =>
          /\ model[frame.self] = frame.pre.model
          /\ frame.bins = frame.pre.model.bins
          /\ HasSentinel(model[frame.self])
    /\ \A k \in DOMAIN log :
          log[k].op = "integrate" =>
              /\ ModelAfter(k) = log[k].pre.model
              /\ HasSentinel(ModelAfter(k))
              /\ k < Len(log) /\ log[k + 1].op = "integrate" =>
                    log[k + 1].pre.model.bins = log[k].pre.model.bins

C18_Witness ==
    /\ JustFinished
    /\ Len(log) = 3
    /\ log[1].op = "prepare_grid" /\ log[1].status = "ok" /\ log[1].args.epochs = 2
    /\ log[2].op = "integrate" /\ log[2].status = "ok" /\ log[2].evals > 0
    /\ log[3].op = "integrate" /\ log[3].status = "ok" /\ log[3].evals > 0
    /\ model[1].bins # uniform_bins(model[1].bin_num, model[1].dimensions)
    /\ log[2].pre.model.bins = model[1].bins
    /\ log[3].pre.model.bins = model[1].bins


\* C19: every prepare_grid starts from the uniform grid (edges 1/bin_num,
\* 2/bin_num, ..., 1 and the row of zeros) and the weights 1/bin_num,
\* whatever grid the object holds; with epochs = 0 it commits that grid; and
\* two completed prepare_grid calls with the same arguments that start at
\* the same state of the generator commit the same grid, whatever was
\* committed before each of them.
IsUniformGrid(bins, bin_num, dimensions) ==
    /\ Len(bins) = bin_num + 1
    /\ \A r \in 1..bin_num : \A d \in 1..dimensions :
          bins[r][d] = Rat(r, bin_num)
    /\ \A d \in 1..dimensions : bins[bin_num + 1][d] = Zero

IsUniformWeights(weights, bin_num, dimensions) ==
    /\ Len(weights) = bin_num
    /\ \A r \in 1..bin_num : \A d \in 1..dimensions :
          weights[r][d] = Rat(1, bin_num)

C19_FreshUniformStart ==
    /\ frame.op = "prepare_grid" /\ frame.resized = 0 =>
          /\ IsUniformGrid(frame.bins, frame.args.bins_per_dimension,
                           frame.dimensions)
          /\ IsUniformWeights(frame.weights, frame.args.bins_per_dimension,
                              frame.dimensions)
    /\ \A k \in DOMAIN log :
          log[k].op = "prepare_grid" /\ log[k].status = "ok" =>
              /\ log[k].args.epochs = 0 =>
                    IsUniformGrid(ModelAfter(k).bins,
                                  log[k].args.bins_per_dimension,
                                  ModelAfter(k).dimensions)
              /\ \A j \in 1..(k - 1) :
                    /\ log[j].op = "prepare_grid" /\ log[j].status = "ok"
                    /\ log[j].args = log[k].args
                    /\ log[j].pre.stream.state = log[k].pre.stream.state
                    => ModelAfter(j).bins = ModelAfter(k).bins

C19_Witness ==
    /\ JustFinished
    /\ Len(log) = 2
    /\ log[1].op = "prepare_grid" /\ log[1].status = "ok"
    /\ log[2].op = "prepare_grid" /\ log[2].status = "ok"
    /\ log[1].args = log[2].args
    /\ log[1].args.epochs = 1
    /\ log[1].evals > 0
    /\ log[1].pre.stream.state = log[2].pre.stream.state
    /\ ~IsUniformGrid(log[2].pre.model.bins, log[2].pre.model.bin_num,
                      log[2].pre.model.dimensions)
    /\ model[1].bins = log[2].pre.model.bins


\* C20: every epoch of prepare_grid first sets the accumulator and the index
\* vector to zero, then visits the bin_num^dimensions combinations once each
\* in the order of get_next_index, then calls resize_grid once; the grid and
\* the weights change at no other step, so every box of an epoch is taken
\* from the same grid, and the commit comes after exactly `epochs` resizes.
IndexOfVisit(visit, bin_num, dimensions) ==
    Array([d \in 1..dimensions |-> (visit \div Pow(bin_num, d - 1)) % bin_num])

AllZero(distrib) ==
    \A r \in DOMAIN distrib : \A d \in DOMAIN distrib[r] : distrib[r][d] = Zero

EpochState ==
    frame.op = "prepare_grid" =>
        /\ frame.resized = frame.epoch
        /\ frame.epoch <= frame.args.epochs
        /\ pc = "bins" =>
              /\ frame.visited <= frame.total_bins
              /\ frame.selected_bins =
                     IndexOfVisit(frame.visited, frame.bin_num, frame.dimensions)
              /\ frame.visited = 0 =>
                     /\ Len(frame.distrib) = frame.bin_num
                     /\ AllZero(frame.distrib)
        /\ pc = "epochs" /\ frame.epoch > 0 => frame.visited = frame.total_bins

EpochStep ==
    /\ EpochState'
    /\ frame.op = "prepare_grid" /\ pc = "epochs" /\ pc' = "bins" =>
          /\ frame'.visited = 0
          /\ frame'.bins = frame.bins /\ frame'.weights = frame.weights
          /\ frame'.epoch = frame.epoch
    /\ frame.op = "prepare_grid" /\ pc = "bins" /\ pc' = "bins" =>
          /\ frame'.visited = frame.visited + 1
          /\ frame'.bins = frame.bins /\ frame'.weights = frame.weights
          /\ frame'.epoch = frame.epoch
          /\ frame'.zone = get_selected_region(model[frame.self].region, frame'.bins,
                               IndexOfVisit(frame.visited, frame.bin_num,
                                            frame.dimensions))
    /\ frame.op = "prepare_grid" /\ pc = "bins" /\ pc' = "epochs" =>
          /\ frame.visited = frame.total_bins
          /\ frame'.epoch = frame.epoch + 1
          /\ <<frame'.bins, frame'.weights>> =
                 resize_grid(frame.bins, frame.weights, frame.distrib,
                             float_value(frame.args.alpha))
    /\ frame.op = "prepare_grid" /\ pc = "epochs" /\ pc' = "idle" =>
          /\ frame.resized = frame.args.epochs
          /\ model'[frame.self].bins = frame.bins

C20_EpochProtocol == [][EpochStep]_vars

C20_Witness ==
    /\ frame.op = "prepare_grid"
    /\ pc = "bins"
    /\ frame.args.epochs = 2
    /\ frame.epoch = 1
    /\ frame.total_bins = 4
    /\ frame.visited = 4
    /\ ~AllZero(frame.distrib)
    /\ ~IsUniformGrid(frame.bins, frame.bin_num, frame.dimensions)


(***************************************************************************)
(* Properties of resize_grid, under SpecResize: every step is one call,    *)
(* from the grid and weights of frame, with the subintegrals kept in       *)
(* frame'.distrib, to the grid and weights of frame'.                      *)
(***************************************************************************)
ResizeCall == frame.op = "resize_grid" /\ frame'.resized = frame.resized + 1

ColumnTable(m, d) == Array([r \in 1..Len(m) |-> <<m[r][d]>>])

PrefixSum(ws, r) == RSum(SubSeq(ws, 1, r))

AllZeroColumn(m, d) == \A r \in 1..Len(m) : m[r][d] = Zero

GuardedMean(m, d) ==
    LET mean == RDiv(RSum(Col(m, d)), Rat(Len(m), 1))
    IN  IF AllZeroColumn(m, d) THEN One ELSE mean

\* C21: a column of subintegrals that is all zero has mean 0, which resize
\* takes as 1: no denominator of the call is zero, the weights returned for
\* that column are the old weights and its edges are the running sums of
\* the old weights; every other column comes out as it does when it is
\* resized on its own.
DegenerateColumnStep ==
    ResizeCall =>
        \A d \in 1..frame.dimensions :
            LET s == frame'.distrib
                old == Col(frame.weights, d)
                alone == resize_grid(ColumnTable(frame.bins, d),
                                     ColumnTable(frame.weights, d),
                                     ColumnTable(s, d), frame.alpha)
            IN  /\ \A r \in 1..frame.bin_num :
                      RLt(Zero, RAdd(RMul(frame.alpha, GuardedMean(s, d)), s[r][d]))
                /\ \A r \in 1..frame.bin_num : frame'.weights[r][d][2] > 0
                /\ AllZeroColumn(s, d) =>
                      /\ Col(frame'.weights, d) = old
                      /\ \A r \in 1..frame.bin_num :
                            frame'.bins[r][d] = PrefixSum(old, r)
                /\ ~AllZeroColumn(s, d) =>
                      /\ Col(frame'.weights, d) = Col(alone[2], 1)
                      /\ Col(frame'.bins, d) = Col(alone[1], 1)

C21_DegenerateColumn == [][DegenerateColumnStep]_vars

C21_Witness ==
    /\ frame.op = "resize_grid"
    /\ frame.resized = 2
    /\ frame.dimensions = 2
    /\ frame.distrib = << <<Zero, Rat(3, 1)>>, <<Zero, Zero>> >>
    /\ RLt(Zero, frame.weights[1][1])
    /\ RLt(frame.weights[1][1], frame.weights[2][1])
    /\ frame.bins[1][1] = frame.weights[1][1]
    /\ Col(frame.weights, 2) # Col(frame.weights, 1)


\* C22: within a column the new weights are proportional to
\* old_weight / (alpha * mean + subintegral) and sum to 1; so of two bins
\* with the same old weight the one with the larger subintegral gets the
\* smaller new weight, and two bins with the same subintegral keep the
\* ratio of their weights.
Damping(s, alpha, r, d) == RAdd(RMul(alpha, GuardedMean(s, d)), s[r][d])

AdaptationStep ==
    ResizeCall =>
        \A d \in 1..frame.dimensions :
            LET s == frame'.distrib
                old == Col(frame.weights, d)
                new == Col(frame'.weights, d)
            IN  /\ RSum(new) = One
                /\ \A i \in 1..frame.bin_num : (old[i] = Zero) <=> (new[i] = Zero)
                /\ \A i, j \in 1..frame.bin_num :
                      /\ old[j] # Zero =>
                             RDiv(new[i], new[j]) =
                                 RMul(RDiv(old[i], old[j]),
                                      RDiv(Damping(s, frame.alpha, j, d),
                                           Damping(s, frame.alpha, i, d)))
                      /\ old[i] = old[j] /\ RLt(s[j][d], s[i][d]) =>
                             RLt(new[i], new[j])
                      /\ s[i][d] = s[j][d] /\ old[j] # Zero =>
                             RDiv(new[i], new[j]) = RDiv(old[i], old[j])

C22_AdaptationDirection == [][AdaptationStep]_vars

C22_Witness ==
    /\ frame.op = "resize_grid"
    /\ frame.resized = 1
    /\ frame.bin_num = 3
    /\ frame.alpha = One
    /\ frame.distrib = << <<Rat(3, 1)>>, <<One>>, <<Zero>> >>
    /\ frame.weights = << <<Rat(28, 171)>>, <<Rat(52, 171)>>, <<Rat(91, 171)>> >>


\* C23: column d of the grid and of the weights returned by resize depends
\* only on alpha and on column d of the grid, of the old weights and of the
\* subintegrals: the call made with any other contents of the other columns
\* returns the same column d.
WithColumn(base, m, d) ==
    Array([r \in 1..Len(base) |->
        Array([c \in 1..Len(base[1]) |-> IF c = d THEN m[r][c] ELSE base[r][c]])])

IndependenceStep ==
    ResizeCall =>
        \A d \in 1..frame.dimensions :
            \A other_weights \in OldWeights(frame.bin_num, frame.dimensions) :
            \A subintegrals \in
                    { t \in Distributions(frame.bin_num, frame.dimensions) :
                          Col(t, d) = Col(frame'.distrib, d) } :
                LET out == resize_grid(
                        WithColumn(uniform_bins(frame.bin_num, frame.dimensions),
                                   frame.bins, d),
                        WithColumn(other_weights, frame.weights, d),
                        subintegrals, frame.alpha)
                IN  /\ Col(out[1], d) = Col(frame'.bins, d)
                    /\ Col(out[2], d) = Col(frame'.weights, d)

C23_ColumnIndependence == [][IndependenceStep]_vars

C23_Witness ==
    /\ frame.op = "resize_grid"
    /\ frame.resized = 2
    /\ frame.dimensions = 2
    /\ frame.distrib = << <<Rat(3, 1), Zero>>, <<Zero, Rat(3, 1)>> >>
    /\ RLt(frame.weights[1][1], frame.weights[1][2])
    /\ frame.bins # uniform_bins(2, 2)


\* C24: every visit of prepare_grid adds one number, the volume of the box
\* times the mean of |f| at the points of the visit, which is not negative,
\* to the entry of the selected bin in every column of the accumulator and
\* to no other entry; so inside every epoch the entries are not negative and
\* all columns have the same sum, the importance gathered so far.
AbsMean(func, points) ==
    IF points = <<>> THEN Zero
    ELSE RDiv(RSum(Array([k \in 1..Len(points) |->
                            RAbs(func_call(func, points[k]).value)])),
              Rat(Len(points), 1))

ColumnSum(m, d) == RSum(Col(m, d))

ProjectionStep ==
    /\ frame'.op = "prepare_grid" /\ pc' = "bins" =>
          /\ \A r \in 1..frame'.bin_num : \A d \in 1..frame'.dimensions :
                RLeq(Zero, frame'.distrib[r][d])
          /\ \A d \in 1..frame'.dimensions :
                ColumnSum(frame'.distrib, d) = ColumnSum(frame'.distrib, 1)
    /\ frame.op = "prepare_grid" /\ pc = "bins" /\ pc' = "bins" =>
          LET mean_importance ==
                  RMul(RegionVolume(frame'.zone),
                       AbsMean(model[frame.self].func, frame'.points))
          IN  /\ RLeq(Zero, mean_importance)
              /\ \A r \in 1..frame.bin_num : \A d \in 1..frame.dimensions :
                    frame'.distrib[r][d] =
                        IF r = frame.selected_bins[d] + 1
                        THEN RAdd(frame.distrib[r][d], mean_importance)
                        ELSE frame.distrib[r][d]
              /\ \A d \in 1..frame.dimensions :
                    ColumnSum(frame'.distrib, d) =
                        RAdd(ColumnSum(frame.distrib, d), mean_importance)

C24_ImportanceProjection == [][ProjectionStep]_vars

C24_Witness ==
    /\ frame.op = "prepare_grid"
    /\ pc = "bins"
    /\ frame.dimensions = 2
    /\ frame.epoch = 1
    /\ frame.visited = frame.total_bins
    /\ frame.total_bins = 4
    /\ frame.distrib[1][1] # frame.distrib[2][1]
    /\ frame.distrib[1][2] # frame.distrib[1][1]
    /\ RLt(Zero, ColumnSum(frame.distrib, 1))
    /\ ColumnSum(frame.distrib, 2) = ColumnSum(frame.distrib, 1)


\* C25: get_next_index is the successor of the vector read as a number in
\* base limit with the first component least significant: the number grows
\* by 1 modulo limit^dims; the components before the first one that is not
\* limit - 1 become 0, that one grows by 1 and the ones after it are left
\* as they are (all become 0 when there is no such component).
RECURSIVE IndexValue(_, _)
IndexValue(indices, limit) ==
    IF indices = <<>> THEN 0
    ELSE indices[1] + limit * IndexValue(Tail(indices), limit)

EnumBefore(k) == IF k = 1 THEN EnumZero ELSE enum.seen[k - 1]

IsSuccessor(before, after, limit) ==
    LET dims == Len(before)
        open == { i \in 1..dims : before[i] # limit - 1 }
        first == CHOOSE i \in open : \A j \in open : i <= j
    IN  /\ Len(after) = dims
        /\ IndexValue(after, limit) =
               (IndexValue(before, limit) + 1) % Pow(limit, dims)
        /\ IF open = {}
           THEN \A i \in 1..dims : after[i] = 0
           ELSE /\ \A i \in 1..(first - 1) : after[i] = 0
                /\ after[first] = before[first] + 1
                /\ \A i \in (first + 1)..dims : after[i] = before[i]

C25_MixedRadixSuccessor ==
    \A k \in 1..Len(enum.seen) :
        IsSuccessor(EnumBefore(k), enum.seen[k], enum.limit)

C25_Witness ==
    /\ enum.limit = 3
    /\ Len(enum.indices) = 3
    /\ enum.calls = 27
    /\ enum.seen[9] = <<0, 0, 1>>
    /\ enum.seen[8] = <<2, 2, 0>>
    /\ enum.seen[26] = <<2, 2, 2>>
    /\ enum.indices = <<0, 0, 0>>


\* C26: integrate looks at its parameters before it reads the grid: a call
\* with times <= 0 or number_of_calls <= 0 on an object that has no grid
\* fails with "Incorrect params", and the failure for the missing grid is
\* only seen by calls whose parameters are both positive.
C26_ValidationFirst ==
    \A k \in DOMAIN log :
        log[k].op = "integrate" =>
            /\ log[k].args.times <= 0 \/ log[k].args.number_of_calls <= 0 =>
                  log[k].status = "Incorrect params"
            /\ log[k].status = "AttributeError" =>
                  /\ log[k].args.times > 0 /\ log[k].args.number_of_calls > 0
                  /\ "bins" \notin log[k].pre.model.attrs

C26_Witness ==
    /\ JustFinished
    /\ Len(log) = 2
    /\ log[1].op = "integrate" /\ log[1].status = "AttributeError"
    /\ LastCall.op = "integrate"
    /\ LastCall.args.times = 0
    /\ LastCall.status = "Incorrect params"
    /\ "bins" \notin LastCall.pre.model.attrs
    /\ "bins" \notin model[1].attrs


\* C27: the table of edges has one row more than there are bins, and that
\* row is 0 in every column at the start and after every resize; so the box
\* of bin 0 starts at the lower bound of the region, and after a resize the
\* first edge is the new weight of bin 0.
SentinelOk(bins, bin_num, dimensions) ==
    /\ Len(bins) = bin_num + 1
    /\ \A d \in 1..dimensions : bins[bin_num + 1][d] = Zero

FirstBoxAtLower(bins, bin_num, dimensions) ==
    \A region \in { g \in Regions : Len(g[1]) = dimensions } :
    \A indices \in AllIndices(bin_num, dimensions) :
        \A d \in 1..dimensions :
            indices[d] = 0 =>
                get_selected_region(region, bins, indices)[1][d] = region[1][d]

C27_ZeroSentinel ==
    frame.op \in {"resize_grid", "prepare_grid"} =>
        /\ SentinelOk(frame.bins, frame.bin_num, frame.dimensions)
        /\ FirstBoxAtLower(frame.bins, frame.bin_num, frame.dimensions)
        /\ frame.resized > 0 =>
              \A d \in 1..frame.dimensions : frame.bins[1][d] = frame.weights[1][d]

C27_Witness ==
    /\ frame.op = "resize_grid"
    /\ frame.resized = 2
    /\ frame.bin_num = 3
    /\ frame.bins[4] = <<Zero>>
    /\ frame.bins[1] = frame.weights[1]
    /\ frame.bins[1] # <<Rat(1, 3)>>
    /\ RLt(Zero, frame.bins[1][1])
    /\ frame.bins[3] = <<One>>


\* C28: a prepare_grid with 0 <= calls_per_epoch < bin_num^dimensions has
\* calls_per_bin = 0: it never calls the integrand and draws nothing, the
\* accumulator of every epoch stays zero, resize keeps the uniform weights
\* and grid, and the call completes and commits the uniform grid, whatever
\* its epochs and its alpha above eps are.
ZeroCalls(a, dimensions) ==
    /\ 0 <= a.calls_per_epoch
    /\ a.calls_per_epoch < Pow(a.bins_per_dimension, dimensions)

C28_ZeroCallsTraining ==
    /\ frame.op = "prepare_grid" /\ ZeroCalls(frame.args, frame.dimensions) =>
          /\ frame.calls_per_bin = 0
          /\ frame.evals = 0
          /\ CurrentStream = frame.pre.stream
          /\ pc = "bins" => AllZero(frame.distrib)
          /\ IsUniformGrid(frame.bins, frame.bin_num, frame.dimensions)
          /\ IsUniformWeights(frame.weights, frame.bin_num, frame.dimensions)
    /\ \A k \in DOMAIN log :
          LET e == log[k]
          IN  /\ e.op = "prepare_grid"
              /\ e.status # "To low alpha"
              /\ ZeroCalls(e.args, Len(e.pre.model.region[1]))
              => /\ e.status = "ok"
                 /\ e.evals = 0
                 /\ StreamAfter(k) = e.pre.stream
                 /\ ModelAfter(k).bin_num = e.args.bins_per_dimension
                 /\ IsUniformGrid(ModelAfter(k).bins, e.args.bins_per_dimension,
                                  ModelAfter(k).dimensions)

C28_Witness ==
    /\ JustFinished
    /\ Len(log) = 2
    /\ log[1].op = "prepare_grid" /\ log[1].status = "ok" /\ log[1].evals > 0
    /\ ~IsUniformGrid(log[2].pre.model.bins, 2, log[2].pre.model.dimensions)
    /\ LastCall.op = "prepare_grid" /\ LastCall.status = "ok"
    /\ LastCall.args.calls_per_epoch = 1
    /\ LastCall.args.epochs = 2
    /\ LastCall.args.alpha = Float(Rat(1, 2), 0)
    /\ LastCall.evals = 0
    /\ CurrentStream = LastCall.pre.stream
    /\ IsUniformGrid(model[1].bins, 2, model[1].dimensions)


\* C30: in prepare_grid and in integrate every point the integrand is called
\* at lies in the box selected for the current bin combination: in every
\* dimension lower <= point <= upper, point < upper when the box has positive
\* width there, and so the point lies in the region of the object.  This
\* holds for the points of the visit just made and for those of the visit
\* about to be made, the one that raises included.
InBox(point, zone) ==
    /\ Len(point) = Len(zone[1])
    /\ \A d \in 1..Len(point) :
          /\ RLeq(zone[1][d], point[d])
          /\ RLeq(point[d], zone[2][d])
          /\ RLt(zone[1][d], zone[2][d]) => RLt(point[d], zone[2][d])

NextVisit == IF frame.op = "prepare_grid" THEN TrainVisit ELSE IntegrateVisit

C30_PointsInsideBox ==
    pc = "bins" =>
        /\ \A n \in DOMAIN frame.points :
              /\ InBox(frame.points[n], frame.zone)
              /\ InBox(frame.points[n], model[frame.self].region)
        /\ frame.visited < frame.total_bins =>
              \A n \in DOMAIN NextVisit.res.points :
                  /\ InBox(NextVisit.res.points[n], NextVisit.zone)
                  /\ InBox(NextVisit.res.points[n], model[frame.self].region)

C30_Witness ==
    /\ pc = "bins"
    /\ frame.op = "integrate"
    /\ Len(log) = 1 /\ log[1].op = "prepare_grid" /\ log[1].status = "ok"
    /\ model[1].dimensions = 2
    /\ ~IsUniformGrid(model[1].bins, 2, 2)
    /\ Len(frame.points) = 2
    /\ frame.points[1] # frame.points[2]
    /\ frame.zone[1] # model[1].region[1]
    /\ \E d \in 1..2 : frame.points[1][d] = frame.zone[1][d]
    /\ \E d \in 1..2 : /\ RLt(frame.zone[1][d], frame.points[2][d])
                       /\ RLt(frame.points[2][d], frame.zone[2][d])


\* C29: objects built without a rand argument hold one and the same default
\* stream.  Every call, of whichever object, starts from the stream as all
\* the earlier calls of both objects left it, and the draws of a running
\* call are seen at once through the other object; so a call that follows
\* draws of the other object starts from another generator state than the
\* draws of its own object alone would have led to.
RECURSIVE DrawsBefore(_)
DrawsBefore(k) ==
    IF k <= 1 THEN 0 ELSE DrawsBefore(k - 1) + log[k - 1].evals

RECURSIVE NumbersBefore(_, _)
NumbersBefore(k, insts) ==
    IF k <= 1 THEN 0
    ELSE NumbersBefore(k - 1, insts)
         + (IF log[k - 1].inst \in insts
            THEN log[k - 1].evals * log[k - 1].pre.model.dimensions ELSE 0)

DefaultStreamAt(k) ==
    [state |-> rand_state(RandomState(DefaultSeed).state,
                          NumbersBefore(k, DOMAIN model)),
     drawn |-> DrawsBefore(k)]

C29_SharedDefaultStream ==
    /\ \A i, j \in DOMAIN model : model[i].rand = model[j].rand
    /\ \A k \in DOMAIN log :
          /\ log[k].pre.stream = DefaultStreamAt(k)
          /\ NumbersBefore(k, DOMAIN model \ {log[k].inst}) % 16 # 0 =>
                log[k].pre.stream.state #
                    rand_state(RandomState(DefaultSeed).state,
                               NumbersBefore(k, {log[k].inst}))
    /\ pc = "idle" => \A i \in DOMAIN model :
          Snapshot(i).stream = DefaultStreamAt(Len(log) + 1)
    /\ pc \in {"epochs", "bins"} => \A i \in DOMAIN model :
          Snapshot(i).stream.drawn = DrawsBefore(Len(log) + 1) + frame.evals

C29_Witness ==
    /\ JustFinished
    /\ Len(log) = 3
    /\ log[1].inst = 1 /\ log[1].op = "prepare_grid" /\ log[1].status = "ok"
    /\ log[2].inst = 2 /\ log[2].op = "prepare_grid" /\ log[2].status = "ok"
    /\ log[3].inst = 1 /\ log[3].op = "integrate" /\ log[3].status = "ok"
    /\ log[1].evals > 0 /\ log[2].evals > 0 /\ log[3].evals > 0
    /\ log[2].pre.stream.drawn = log[1].evals
    /\ log[3].pre.stream.drawn = log[1].evals + log[2].evals
    /\ rand(log[3].pre.stream, model[1].dimensions).point #
          rand([state |-> rand_state(RandomState(DefaultSeed).state,
                                     NumbersBefore(3, {1})),
                drawn |-> log[1].evals], model[1].dimensions).point
    /\ Snapshot(2).stream.drawn = log[1].evals + log[2].evals + log[3].evals

=============================================================================
